---- MODULE Spec2Model ----
(***************************************************************************)
(* The "outfit of the day" screen: HomeScreen (card stack, undo history,   *)
(* processing guard, transition timer), the SwipeableCard gesture machine  *)
(* with the closures its PanResponder captured when the card was mounted,  *)
(* the ArcCarousel window, and the persisted todayCollection store.        *)
(*                                                                         *)
(* Lengths are in hundredths of a pixel, so that SCREEN_WIDTH * 0.26 is an *)
(* integer.  Indices are 0-based as in the source; sequences are 1-based.  *)
(***************************************************************************)
EXTENDS Integers, Sequences, FiniteSets, TLC

\* ------------------------------------------------------------------ bounds
\* Number of entries of the outfits array (mockOutfits lists 8).
NumOutfits == 3
\* A new drag is started only while the history is shorter than this.
MaxHistory == 2
\* Largest items.length the carousel is rendered with on its own.
MaxItems == 14
\* How many grid steps past the threshold a drag on its own is moved.
MaxOvershoot == 2

\* ------------------------------------------------------- program constants
\* Dimensions.get('window').width, in pixels.
ScreenWidth == 100
\* const visibleRange = 4
visibleRange == 4

\* SWIPE_THRESHOLD = SCREEN_WIDTH * 0.26, in hundredths of a pixel.
SWIPE_THRESHOLD == ScreenWidth * 26

Indices == 0 .. (NumOutfits - 1)

\* mockOutfits[i].id is the string of i + 1.
Id(i) == i + 1

Ids == { Id(i) : i \in Indices }

Min(a, b) == IF a < b THEN a ELSE b
Max(a, b) == IF a > b THEN a ELSE b

\* gestureState.dx at release: around both thresholds and at rest.
DragDx == { -(SWIPE_THRESHOLD + 1), -SWIPE_THRESHOLD, -(SWIPE_THRESHOLD - 1), 0,
            SWIPE_THRESHOLD - 1, SWIPE_THRESHOLD, SWIPE_THRESHOLD + 1 }

\* gestureState.dy at release.
DragDy == { 0, 4000 }

VARIABLES
  outfits,       \* useState: index -> [isAccepted, isRejected]
  activeIndex,   \* useState(0)
  history,       \* useState([]): sequence of [index, action]
  isProcessing,  \* isProcessingRef.current
  timer,         \* the pending setTimeout(..., 100) callback, if any
  accepted,      \* store: sequence of OutfitSuggestion records [id, rest]
  cards,         \* per outfit index: the mounted SwipeableCard and what it captured
  drag,          \* index of the card that holds the pan responder, or NoDrag
  exit,          \* the running exit animation and the closure its callback calls
  lastOp,        \* the handler that ran last, its inputs and its outcome
  probe,         \* state before the last decision on the active item, and its
                 \* stage; closed by the next gesture, press or unrelated handler
  val,           \* top card: translateX, translateY, likeOpacity, nopeOpacity
  anim,          \* top card: the running spring-back animation, if any
  gesture,       \* gestureState (dx, dy) of the touch that holds the responder
  arc            \* the last ArcCarousel render: its props and its thumbnails

vars == << outfits, activeIndex, history, isProcessing, timer, accepted,
           cards, drag, exit, lastOp, probe, val, anim, gesture, arc >>

screen == << outfits, activeIndex, history, accepted >>

\* ------------------------------------------------------------------ store

\* outfits[i] as an OutfitSuggestion object.  The handlers and the store read
\* only its id; its other fields (image, texts, gradient, the flags it had
\* when it was read) are kept as one value, rest.
Rec(i) == [id |-> Id(i), rest |-> 0]

HasId(cur, id) == \E j \in 1 .. Len(cur) : cur[j].id = id

\* Mutant: addAccepted without the cur.some(...) early return.
AddAcceptedNoCheck(cur, outfit) == << outfit >> \o cur

\* Mutant: addAccepted appends the new record at the end.
AddAcceptedAtEnd(cur, outfit) ==
  IF HasId(cur, outfit.id) THEN cur ELSE cur \o << outfit >>

\* addAccepted: if (cur.some(x => x.id === outfit.id)) return; set([outfit, ...cur])
AddAccepted(cur, outfit) ==
  IF HasId(cur, outfit.id) THEN cur ELSE << outfit >> \o cur

\* Array.prototype.filter with x => x.id !== id: keeps the others, in order.
RECURSIVE FilterOutId(_, _)
FilterOutId(cur, id) ==
  IF cur = << >> THEN << >>
  ELSE IF Head(cur).id # id
       THEN << Head(cur) >> \o FilterOutId(Tail(cur), id)
       ELSE FilterOutId(Tail(cur), id)

\* Mutant: removeAccepted empties the list.
RemoveAcceptedAll(cur, id) == << >>

\* removeAccepted: set(accepted.filter(x => x.id !== id))
RemoveAccepted(cur, id) == FilterOutId(cur, id)

\* ------------------------------------------------------------- HomeScreen

NoFlags == [isAccepted |-> FALSE, isRejected |-> FALSE]

\* Mutant: goNext without the Math.min clamp.
GoNextUnclamped(prev) == prev + 1

\* goNext: setActiveIndex(prev => Math.min(prev + 1, outfits.length - 1))
GoNext(prev) == Min(prev + 1, NumOutfits - 1)

\* Mutant: onLeft sets isRejected and leaves isAccepted as it was.
RejectOutfitKeepAccepted(o, id) ==
  [i \in Indices |-> IF Id(i) = id THEN [o[i] EXCEPT !.isRejected = TRUE] ELSE o[i]]

\* onLeft's setOutfits: prev.map(o => o.id === current.id ? {rejected} : o)
RejectOutfit(o, id) ==
  [i \in Indices |-> IF Id(i) = id THEN [isAccepted |-> FALSE, isRejected |-> TRUE] ELSE o[i]]

\* onRight's setOutfits: prev.map(o => o.id === current.id ? {accepted} : o)
AcceptOutfit(o, id) ==
  [i \in Indices |-> IF Id(i) = id THEN [isAccepted |-> TRUE, isRejected |-> FALSE] ELSE o[i]]

\* Mutant: undo leaves the flags as they are.
ClearOutfitNone(o, idx) == o

\* Mutant: undo clears the flags of every item.
ClearOutfitAll(o, idx) == [i \in Indices |-> NoFlags]

\* undo's setOutfits: prev.map((o, idx) => idx === last.index ? {cleared} : o)
ClearOutfit(o, idx) ==
  [i \in Indices |-> IF i = idx THEN NoFlags ELSE o[i]]

\* visibleCards = outfits.slice(activeIndex, activeIndex + 2)
VisibleCards(a) == { i \in Indices : a <= i /\ i < a + 2 }

\* ArcCarousel: indices from max(0, a - 4) to min(n - 1, a + 4)
Visible(a) == Max(0, a - visibleRange) .. Min(NumOutfits - 1, a + visibleRange)

\* const ARC_ANGLE = 118, in degrees
ARC_ANGLE == 118
\* const THUMB = 52
THUMB == 52
\* const CENTER = 70
CENTER == 70

\* for (let i = start; i <= end; i++) idxs.push(i)
RECURSIVE PushRange(_, _, _)
PushRange(idxs, i, end) ==
  IF i <= end THEN PushRange(Append(idxs, i), i + 1, end) ELSE idxs

\* Mutant: the window ends one thumbnail early.
ArcVisibleShort(n, a) ==
  PushRange(<< >>, Max(0, a - visibleRange), Min(n - 1, a + visibleRange) - 1)

\* visible: start = max(0, activeIndex - visibleRange),
\* end = min(items.length - 1, activeIndex + visibleRange)
ArcVisible(n, a) ==
  PushRange(<< >>, Max(0, a - visibleRange), Min(n - 1, a + visibleRange))

Abs(x) == IF x < 0 THEN -x ELSE x

\* Mutant: the falloff stops at the second step.
ThumbOpacityFlat(dist) ==
  IF dist = 0 THEN 100 ELSE IF dist = 1 THEN 75 ELSE 55

\* opacity = dist === 0 ? 1 : dist === 1 ? 0.75 : dist === 2 ? 0.55 : 0.35, in percent
ThumbOpacity(dist) ==
  IF dist = 0 THEN 100 ELSE IF dist = 1 THEN 75 ELSE IF dist = 2 THEN 55 ELSE 35

\* pos(slot): angle = startAngle + slot * step with startAngle = -ARC_ANGLE / 2
\* and step = ARC_ANGLE / max(1, visible.length - 1).  Kept as the numerator
\* over 2 * max(1, len - 1), so that it is 0 exactly when the angle is 0.
ArcAngle(slot, len) == ARC_ANGLE * (2 * slot - Max(1, len - 1))

\* One thumbnail of visible.map((realIndex, slot) => ...); slot counts from 0.
Thumb(realIndex, slot, a, len) ==
  LET isActive == realIndex = a IN
  [realIndex |-> realIndex,
   slot      |-> slot,
   angle     |-> ArcAngle(slot, len),
   size      |-> IF isActive THEN CENTER ELSE THUMB,
   opacity   |-> ThumbOpacity(Abs(realIndex - a)),
   ring      |-> isActive]

\* The render of ArcCarousel for items.length = n and activeIndex = a.
ArcRender(n, a) ==
  LET visible == ArcVisible(n, a) IN
  [n |-> n, activeIndex |-> a, visible |-> visible,
   thumbs |-> [s \in 1 .. Len(visible) |->
                 Thumb(visible[s], s - 1, a, Len(visible))]]

\* ---------------------------------------------------------- SwipeableCard

NoCurrent == [id |-> 0, rest |-> 0]

Unmounted == [mounted |-> FALSE, isActive |-> FALSE, activeIndex |-> 0, current |-> NoCurrent]

\* First render of the card for index i while the screen shows index a: the
\* PanResponder created in useRef keeps this render's isActive and, through
\* handleSwipeLeft/Right, this render's onLeft/onRight, which read the
\* activeIndex and outfits[activeIndex] of this render.
Mount(i, a) ==
  [mounted |-> TRUE, isActive |-> (i = a), activeIndex |-> a, current |-> Rec(a)]

\* A commit of the screen: cards are keyed by outfit id, so a card that stays
\* in visibleCards keeps its instance (and PanResponder); others are mounted
\* fresh or unmounted.
Render(c, a) ==
  [i \in Indices |->
     IF i \in VisibleCards(a)
     THEN IF c[i].mounted THEN c[i] ELSE Mount(i, a)
     ELSE Unmounted]

NoDrag == -1
NoExit == [dir |-> "none", activeIndex |-> 0, current |-> NoCurrent]

\* Mutant: a release at exactly -SWIPE_THRESHOLD commits left.
ShouldLeftInclusive(dx) == dx <= -SWIPE_THRESHOLD

\* const shouldLeft = dx < -SWIPE_THRESHOLD
ShouldLeft(dx) == dx < -SWIPE_THRESHOLD

\* const shouldRight = dx > SWIPE_THRESHOLD
ShouldRight(dx) == dx > SWIPE_THRESHOLD

\* onPanResponderRelease: which of the three branches is taken.
ReleaseOutcome(dx, dy) ==
  IF ShouldLeft(dx) THEN "left"
  ELSE IF ShouldRight(dx) THEN "right"
  ELSE "spring"

\* new Animated.Value(0) for translateX, translateY, likeOpacity, nopeOpacity.
\* Opacities are kept as numerators over OpacityFull.
ZeroVal == [tx |-> 0, ty |-> 0, like |-> 0, nope |-> 0]

\* Opacity 1, as a numerator: the denominator is SWIPE_THRESHOLD * 0.75,
\* so an opacity x / (0.75 T) is kept as 4x over 3T.
OpacityFull == 3 * SWIPE_THRESHOLD

\* Mutant: the label opacity without the Math.min(1, ...) clamp.
LabelOpacityUnclamped(x) == 4 * x

\* Math.min(1, x / threshold) with threshold = SWIPE_THRESHOLD * 0.75
LabelOpacity(x) == Min(OpacityFull, 4 * x)

\* onPanResponderMove: setValue on the four values for gestureState (dx, dy).
MoveValues(dx, dy) ==
  [tx |-> dx,
   ty |-> (dy * 22) \div 100,
   like |-> IF dx > 0 THEN LabelOpacity(dx) ELSE 0,
   nope |-> IF dx < 0 THEN LabelOpacity(-dx) ELSE 0]

\* Mutant: the completion callback calls the handler without resetting the values.
ExitResetMissing(v) == v

\* The exit animation's callback first sets the four values to 0.
ExitReset(v) == ZeroVal

\* The release's spring-back drives the four values to 0.
SpringBackEnd(v) == ZeroVal

\* onPanResponderTerminate's animation drives translateX and translateY to 0.
TerminateEnd(v) == [v EXCEPT !.tx = 0, !.ty = 0]

\* The values of the top card once the active index is a: another card is on
\* top then, mounted with zero values or reset when it became inactive.
ValAfter(a) == IF a = activeIndex THEN val ELSE ZeroVal

\* The spring-back of the top card once the active index is a.
AnimAfter(a) == IF a = activeIndex THEN anim ELSE "none"

\* gestureState when a touch starts, and when no touch is down.
NoGesture == [dx |-> 0, dy |-> 0]

\* A card can start a drag when it is rendered with the pan handlers
\* (isActive, i.e. first of visibleCards) and its responder, created at
\* mount, answers onStartShouldSetPanResponder with the isActive of that render.
CanStartDrag(i) ==
  /\ i = activeIndex
  /\ cards[i].mounted
  /\ cards[i].isActive

\* ------------------------------------------------------------ bookkeeping

Op(op, result, dir, index, dx, dy) ==
  [op |-> op, result |-> result, dir |-> dir, index |-> index, dx |-> dx, dy |-> dy]

NoProbe == [stage |-> "none", before |-> << >>]

\* A decision opens a probe when the callback follows its release directly
\* and its closure's index is the active index: the screen state it started from.
ProbeDecision(cl) ==
  IF cl.activeIndex = activeIndex /\ lastOp.op = "release"
  THEN [stage |-> "decided", before |-> screen]
  ELSE NoProbe

\* The drag ends when its card stops being the top card of the stack.
DragAfter(a) == IF drag = a THEN drag ELSE NoDrag

\* ------------------------------------------------------------------- Init

Init ==
  /\ outfits = [i \in Indices |-> NoFlags]
  /\ activeIndex = 0
  /\ history = << >>
  /\ isProcessing = FALSE
  /\ timer = "none"
  /\ accepted = << >>
  /\ cards = Render([i \in Indices |-> Unmounted], 0)
  /\ drag = NoDrag
  /\ exit = NoExit
  /\ lastOp = Op("init", "done", "none", 0, 0, 0)
  /\ probe = NoProbe
  /\ val = ZeroVal
  /\ anim = "none"
  /\ gesture = NoGesture
  /\ arc = ArcRender(NumOutfits, 0)

\* ---------------------------------------------------------------- actions

\* onLeft as captured in closure cl (cl.activeIndex, cl.current = outfits[activeIndex]).
OnLeft(cl) ==
  IF isProcessing
  THEN /\ lastOp' = Op("onLeft", "blocked", "left", cl.activeIndex, 0, 0)
       /\ UNCHANGED << outfits, history, isProcessing, timer, accepted, probe >>
  ELSE IF cl.activeIndex \notin Indices
  THEN /\ lastOp' = Op("onLeft", "missing", "left", cl.activeIndex, 0, 0)
       /\ UNCHANGED << outfits, history, isProcessing, timer, accepted, probe >>
  ELSE /\ isProcessing' = TRUE
       /\ outfits' = RejectOutfit(outfits, cl.current.id)
       /\ history' = Append(history, [index |-> cl.activeIndex, action |-> "left"])
       /\ timer' = "goNext"
       /\ lastOp' = Op("onLeft", "recorded", "left", cl.activeIndex, 0, 0)
       /\ probe' = ProbeDecision(cl)
       /\ UNCHANGED accepted

\* onRight as captured in closure cl.
OnRight(cl) ==
  IF isProcessing
  THEN /\ lastOp' = Op("onRight", "blocked", "right", cl.activeIndex, 0, 0)
       /\ UNCHANGED << outfits, history, isProcessing, timer, accepted, probe >>
  ELSE IF cl.activeIndex \notin Indices
  THEN /\ lastOp' = Op("onRight", "missing", "right", cl.activeIndex, 0, 0)
       /\ UNCHANGED << outfits, history, isProcessing, timer, accepted, probe >>
  ELSE /\ isProcessing' = TRUE
       /\ outfits' = AcceptOutfit(outfits, cl.current.id)
       /\ accepted' = AddAccepted(accepted, cl.current)
       /\ history' = Append(history, [index |-> cl.activeIndex, action |-> "right"])
       /\ timer' = "goNext"
       /\ lastOp' = Op("onRight", "recorded", "right", cl.activeIndex, 0, 0)
       /\ probe' = ProbeDecision(cl)

\* onStartShouldSetPanResponder / onPanResponderGrant on the top card: the
\* handlers are attached to the card rendered with isActive, and the
\* responder answers with the isActive it captured when it was created.
Grant ==
  /\ drag = NoDrag
  /\ exit = NoExit
  /\ anim = "none"
  /\ Len(history) < MaxHistory
  /\ CanStartDrag(activeIndex)
  /\ drag' = activeIndex
  /\ lastOp' = Op("grant", "done", "none", activeIndex, 0, 0)
  /\ probe' = NoProbe
  /\ UNCHANGED << outfits, activeIndex, history, isProcessing, timer, accepted,
                  cards, exit, val, anim, gesture, arc >>

\* onPanResponderMove with gestureState (dx, dy).
Move(dx, dy) ==
  /\ drag # NoDrag
  /\ cards[drag].isActive
  /\ gesture' = [dx |-> dx, dy |-> dy]
  /\ val' = MoveValues(dx, dy)
  /\ lastOp' = Op("move", "done", "none", drag, dx, dy)
  /\ UNCHANGED << outfits, activeIndex, history, isProcessing, timer, accepted,
                  cards, drag, exit, probe, anim, arc >>

\* onPanResponderRelease with gestureState (dx, dy): the displacement of the
\* last move, since the end of a touch does not move it.
Release(dx, dy) ==
  /\ drag # NoDrag
  /\ gesture = [dx |-> dx, dy |-> dy]
  /\ gesture' = NoGesture
  /\ LET out == ReleaseOutcome(dx, dy) IN
       /\ exit' = IF out = "spring"
                  THEN NoExit
                  ELSE [dir |-> out, activeIndex |-> cards[drag].activeIndex,
                        current |-> cards[drag].current]
       /\ anim' = IF out = "spring" THEN "spring" ELSE "none"
       /\ lastOp' = Op("release", out, out, drag, dx, dy)
  /\ drag' = NoDrag
  /\ UNCHANGED << outfits, activeIndex, history, isProcessing, timer, accepted,
                  cards, probe, val, arc >>

\* onPanResponderTerminate: springs back, calls nothing.
Terminate ==
  /\ drag # NoDrag
  /\ drag' = NoDrag
  /\ gesture' = NoGesture
  /\ anim' = "settle"
  /\ lastOp' = Op("terminate", "done", "none", drag, 0, 0)
  /\ UNCHANGED << outfits, activeIndex, history, isProcessing, timer, accepted,
                  cards, exit, probe, val, arc >>

\* The end of a spring-back: of the release's (all four values) or of
\* onPanResponderTerminate's (translateX and translateY only).
SpringEnd ==
  /\ anim # "none"
  /\ val' = IF anim = "spring" THEN SpringBackEnd(val) ELSE TerminateEnd(val)
  /\ anim' = "none"
  /\ lastOp' = Op("springEnd", anim, "none", activeIndex, 0, 0)
  /\ UNCHANGED << outfits, activeIndex, history, isProcessing, timer, accepted,
                  cards, drag, exit, probe, gesture, arc >>

\* The .start(() => { ...; handleSwipeLeft() / handleSwipeRight() }) callback
\* of the exit animation.  It does not look at the animation's result, so it
\* runs whether the animation ran to its end or was stopped early, and
\* whatever handlers ran since the release.
AnimationEnd ==
  /\ exit # NoExit
  /\ exit' = NoExit
  /\ val' = ExitReset(val)
  /\ IF exit.dir = "left" THEN OnLeft(exit) ELSE OnRight(exit)
  /\ UNCHANGED << activeIndex, cards, drag, anim, gesture, arc >>

\* undo, the onPress of the undo button (current render's closure).
Undo ==
  /\ drag = NoDrag
  /\ IF Len(history) = 0 \/ isProcessing
     THEN /\ lastOp' = Op("undo", "blocked", "none", 0, 0, 0)
          /\ UNCHANGED << outfits, activeIndex, history, isProcessing, timer,
                          accepted, cards, probe, val, anim, arc >>
     ELSE LET last == history[Len(history)] IN
          /\ isProcessing' = TRUE
          /\ accepted' = IF last.action = "right"
                         THEN RemoveAccepted(accepted, Id(last.index))
                         ELSE accepted
          /\ history' = SubSeq(history, 1, Len(history) - 1)
          /\ outfits' = ClearOutfit(outfits, last.index)
          /\ activeIndex' = last.index
          /\ timer' = "undo"
          /\ cards' = Render(cards, last.index)
          /\ val' = ValAfter(last.index)
          /\ anim' = AnimAfter(last.index)
          /\ arc' = ArcRender(NumOutfits, last.index)
          /\ lastOp' = Op("undo", "recorded", last.action, last.index, 0, 0)
          /\ probe' = IF probe.stage = "settled"
                      THEN [probe EXCEPT !.stage = "undone"]
                      ELSE NoProbe
  /\ UNCHANGED << drag, exit, gesture >>

\* Mutant: the carousel press ignores the guard.
PressAllowedAlways == TRUE

\* onItemPress: if (!isProcessingRef.current) setActiveIndex(index)
PressAllowed == ~isProcessing

\* A press on the thumbnail of index, one of the visible window.
Press(index) ==
  /\ drag = NoDrag
  /\ index \in Visible(activeIndex)
  /\ IF PressAllowed
     THEN /\ activeIndex' = index
          /\ cards' = Render(cards, index)
          /\ val' = ValAfter(index)
          /\ anim' = AnimAfter(index)
          /\ arc' = ArcRender(NumOutfits, index)
          /\ lastOp' = Op("press", "recorded", "none", index, 0, 0)
          /\ probe' = NoProbe
     ELSE /\ lastOp' = Op("press", "blocked", "none", index, 0, 0)
          /\ UNCHANGED << activeIndex, cards, probe, val, anim, arc >>
  /\ UNCHANGED << outfits, history, isProcessing, timer, accepted, drag, exit, gesture >>

\* Mutant: the timer callback leaves the guard as it is.
GuardAfterTimerKept == isProcessing

\* isProcessingRef.current = false, the last statement of each timer callback.
GuardAfterTimer == FALSE

\* The setTimeout(..., 100) callback: goNext after a decision, then the
\* guard is released; after an undo only the guard is released.
TimerFire ==
  /\ timer # "none"
  /\ activeIndex' = IF timer = "goNext" THEN GoNext(activeIndex) ELSE activeIndex
  /\ isProcessing' = GuardAfterTimer
  /\ timer' = "none"
  /\ cards' = Render(cards, activeIndex')
  /\ drag' = DragAfter(activeIndex')
  /\ gesture' = IF DragAfter(activeIndex') = NoDrag THEN NoGesture ELSE gesture
  /\ val' = ValAfter(activeIndex')
  /\ anim' = AnimAfter(activeIndex')
  /\ arc' = ArcRender(NumOutfits, activeIndex')
  /\ lastOp' = Op("timer", timer, "none", activeIndex, 0, 0)
  /\ probe' = IF probe.stage = "decided"
              THEN [probe EXCEPT !.stage = "settled"]
              ELSE NoProbe
  /\ UNCHANGED << outfits, history, accepted, exit >>

Next ==
  \/ Grant
  \/ \E dx \in DragDx, dy \in DragDy : Move(dx, dy)
  \/ \E dx \in DragDx, dy \in DragDy : Release(dx, dy)
  \/ Terminate
  \/ SpringEnd
  \/ AnimationEnd
  \/ Undo
  \/ \E index \in Indices : Press(index)
  \/ TimerFire

Spec == Init /\ [][Next]_vars

\* A timer set with setTimeout(..., 100) does fire: the event loop runs its
\* callback once the delay has passed.
FairSpec == Spec /\ WF_vars(TimerFire)

\* ------------------------------------------------- the store on its own

\* Any OutfitSuggestion may be handed to the store: two contents per id.
StoreRecords == [id : Ids, rest : {0, 1}]

StoreAdd(outfit) ==
  /\ accepted' = AddAccepted(accepted, outfit)
  /\ lastOp' = Op("addAccepted", IF HasId(accepted, outfit.id) THEN "present" ELSE "added",
                  "none", outfit.id, 0, 0)
  /\ UNCHANGED << outfits, activeIndex, history, isProcessing, timer, cards,
                  drag, exit, probe, val, anim, gesture, arc >>

StoreRemove(id) ==
  /\ accepted' = RemoveAccepted(accepted, id)
  /\ lastOp' = Op("removeAccepted", IF HasId(accepted, id) THEN "removed" ELSE "absent",
                  "none", id, 0, 0)
  /\ UNCHANGED << outfits, activeIndex, history, isProcessing, timer, cards,
                  drag, exit, probe, val, anim, gesture, arc >>

\* clearAll: set({ accepted: [] })
StoreClearAll ==
  /\ accepted' = << >>
  /\ lastOp' = Op("clearAll", "done", "none", 0, 0, 0)
  /\ UNCHANGED << outfits, activeIndex, history, isProcessing, timer, cards,
                  drag, exit, probe, val, anim, gesture, arc >>

StoreNext ==
  \/ \E outfit \in StoreRecords : StoreAdd(outfit)
  \/ \E id \in Ids : StoreRemove(id)
  \/ StoreClearAll

StoreSpec == Init /\ [][StoreNext]_vars

\* ------------------------------------------------ one drag on its own

\* gestureState.dx of the move events of one drag: every half pixel from
\* beyond -SWIPE_THRESHOLD to beyond +SWIPE_THRESHOLD, and the release points.
MoveDx ==
  { 50 * k : k \in -(SWIPE_THRESHOLD \div 50 + MaxOvershoot) ..
                    (SWIPE_THRESHOLD \div 50 + MaxOvershoot) } \cup DragDx

DragNext ==
  \/ Grant
  \/ \E dx \in MoveDx, dy \in DragDy : Move(dx, dy)

DragSpec == Init /\ [][DragNext]_vars

\* -------------------------------------------- the carousel on its own

\* A render of ArcCarousel with an items array of length n and activeIndex a.
ArcStep(n, a) ==
  /\ arc' = ArcRender(n, a)
  /\ lastOp' = Op("render", "done", "none", a, 0, 0)
  /\ UNCHANGED << outfits, activeIndex, history, isProcessing, timer, accepted,
                  cards, drag, exit, probe, val, anim, gesture >>

ArcNext == \E n \in 1 .. MaxItems : \E a \in 0 .. (n - 1) : ArcStep(n, a)

ArcSpec == Init /\ [][ArcNext]_vars

\* ----------------------------------------------------------------- claims

\* C1: when onRight runs with the guard clear and the active index k on an
\* existing item, afterwards item k is accepted and not rejected, the store
\* holds a record with item k's id, and (k, 'right') is the last history entry.
C1_SwipeRightAcceptsActive ==
  [][(lastOp'.op = "onRight" /\ lastOp'.result = "recorded") =>
       /\ outfits'[activeIndex].isAccepted
       /\ ~outfits'[activeIndex].isRejected
       /\ HasId(accepted', Id(activeIndex))
       /\ Len(history') > 0
       /\ history'[Len(history')] = [index |-> activeIndex, action |-> "right"]]_vars

\* C2: when onLeft runs with the guard clear and the active index k on an
\* existing item, afterwards item k is rejected and not accepted, (k, 'left')
\* is the last history entry, every other item's flags and the store are unchanged.
C2_SwipeLeftRejectsActive ==
  [][(lastOp'.op = "onLeft" /\ lastOp'.result = "recorded") =>
       /\ outfits'[activeIndex].isRejected
       /\ ~outfits'[activeIndex].isAccepted
       /\ Len(history') > 0
       /\ history'[Len(history')] = [index |-> activeIndex, action |-> "left"]
       /\ \A i \in Indices \ {activeIndex} : outfits'[i] = outfits[i]
       /\ accepted' = accepted]_vars

\* C3: a decision on the active item, its transition timer and then undo give
\* back the flags, active index, history and accepted collection of the state
\* the decision started from.
C3_UndoRestoresState ==
  probe.stage = "undone" => screen = probe.before

\* C4: the active index stays within 0 .. n-1 whatever sequence of swipes,
\* undos, carousel presses and timer firings happens.
C4_ActiveIndexInBounds ==
  0 <= activeIndex /\ activeIndex <= NumOutfits - 1

\* C4 witness: the timer of a decision on the last item fired and the index was clamped.
C4_Witness ==
  /\ lastOp.op = "timer" /\ lastOp.result = "goNext"
  /\ lastOp.index = NumOutfits - 1
  /\ activeIndex = NumOutfits - 1

\* C5: every history entry has an index within 0 .. n-1 and an action in
\* {left, right}, and its index is the active index at the time it was pushed.
C5_HistoryEntriesValid ==
  [][/\ \A j \in 1 .. Len(history') :
          /\ history'[j].index \in Indices
          /\ history'[j].action \in {"left", "right"}
     /\ Len(history') > Len(history) =>
          history'[Len(history')].index = activeIndex]_vars

\* C6: from the empty list, no sequence of addAccepted, removeAccepted and
\* clearAll leaves two records with the same id in the accepted list.
C6_AcceptedIdsUnique ==
  \A i, j \in 1 .. Len(accepted) : i # j => accepted[i].id # accepted[j].id

\* C6 witness: addAccepted was called with an id already in a list of two or more.
C6_Witness ==
  /\ lastOp.op = "addAccepted" /\ lastOp.result = "present"
  /\ Len(accepted) >= 2

\* C7: whenever a completion callback records a decision, the item whose
\* flags change and the index pushed on the history are the active index of
\* that moment.
C7_DecisionOnActiveItem ==
  [][(lastOp'.op \in {"onLeft", "onRight"} /\ lastOp'.result = "recorded") =>
       /\ history' = Append(history, [index |-> activeIndex, action |-> lastOp'.dir])
       /\ \A i \in Indices : outfits'[i] # outfits[i] => i = activeIndex
       /\ outfits'[activeIndex] # NoFlags]_vars

\* C8: while the guard is set, a further onLeft, onRight, undo or carousel
\* press changes neither flags, history, active index nor accepted collection.
C8_GuardBlocksInput ==
  [][(isProcessing /\ lastOp'.op \in {"onLeft", "onRight", "undo", "press"}) =>
       UNCHANGED screen]_vars

\* C8 witness: a carousel press on another thumbnail arrived while the guard was set.
C8_Witness ==
  /\ isProcessing
  /\ lastOp.op = "press" /\ lastOp.result = "blocked"
  /\ lastOp.index # activeIndex

\* C9: from the release of a committed swipe, through the exit animation and
\* until the active index has advanced, an undo press or a carousel press
\* changes neither active index, history, flags nor accepted collection.
C9_InputDebouncedDuringExit ==
  [][((exit # NoExit \/ timer = "goNext") /\ lastOp'.op \in {"undo", "press"}) =>
       UNCHANGED screen]_vars

\* C10: a release commits left iff dx < -T, commits right iff dx > T and
\* springs back iff -T <= dx <= T, whatever the vertical displacement.
C10_ReleaseOutcome ==
  lastOp.op = "release" =>
    /\ lastOp.result \in {"left", "right", "spring"}
    /\ (lastOp.result = "left") <=> (lastOp.dx < -SWIPE_THRESHOLD)
    /\ (lastOp.result = "right") <=> (lastOp.dx > SWIPE_THRESHOLD)
    /\ (lastOp.result = "spring") <=>
         (-SWIPE_THRESHOLD <= lastOp.dx /\ lastOp.dx <= SWIPE_THRESHOLD)
    /\ exit.dir = (IF lastOp.result = "spring" THEN "none" ELSE lastOp.result)

\* C10 witness: a release at exactly dx = -T with a vertical displacement sprang back.
C10_Witness ==
  /\ lastOp.op = "release"
  /\ lastOp.dx = -SWIPE_THRESHOLD
  /\ lastOp.dy # 0
  /\ lastOp.result = "spring"
  /\ exit = NoExit

\* C12: for every item count n >= 1 and active index a in 0 .. n-1 the
\* visible indices are exactly the consecutive integers from max(0, a-4) to
\* min(n-1, a+4); the window has at most 9 entries, contains a, and holds
\* only indices in 0 .. n-1.
C12_ArcWindow ==
  LET n  == arc.n
      a  == arc.activeIndex
      lo == IF a - 4 > 0 THEN a - 4 ELSE 0
      hi == IF a + 4 < n - 1 THEN a + 4 ELSE n - 1
  IN /\ Len(arc.visible) = hi - lo + 1
     /\ \A s \in 1 .. Len(arc.visible) : arc.visible[s] = lo + s - 1
     /\ Len(arc.visible) <= 9
     /\ \E s \in 1 .. Len(arc.visible) : arc.visible[s] = a
     /\ \A s \in 1 .. Len(arc.visible) : 0 <= arc.visible[s] /\ arc.visible[s] <= n - 1

\* C12 witness: a render whose window is cut on the left by index 0 and on
\* the right by the range of 4.
C12_Witness ==
  /\ lastOp.op = "render"
  /\ arc.n >= 10
  /\ arc.activeIndex = 2
  /\ Len(arc.visible) = 7

\* C13: for every n >= 1 and active index a in 0 .. n-1 the active thumbnail
\* is in the middle slot of the window, as many thumbnails before it as
\* after it, at angle 0 of the arc.
C13_ActiveThumbCentred ==
  \A s \in 1 .. Len(arc.thumbs) :
    arc.thumbs[s].realIndex = arc.activeIndex =>
      /\ s - 1 = Len(arc.thumbs) - s
      /\ arc.thumbs[s].angle = 0

\* C14: a visible thumbnail at distance d from the active index has opacity
\* 1, 0.75, 0.55, 0.35 for d = 0, 1, 2, >= 3, so opacity never grows with d;
\* exactly one visible thumbnail, the active one, has the enlarged size and
\* the ring.
C14_ThumbOpacityAndHighlight ==
  LET T == arc.thumbs
      D(s) == IF T[s].realIndex >= arc.activeIndex
              THEN T[s].realIndex - arc.activeIndex
              ELSE arc.activeIndex - T[s].realIndex
  IN /\ \A s \in 1 .. Len(T) :
          T[s].opacity = CASE D(s) = 0 -> 100
                           [] D(s) = 1 -> 75
                           [] D(s) = 2 -> 55
                           [] OTHER    -> 35
     /\ \A s, t \in 1 .. Len(T) : D(s) <= D(t) => T[s].opacity >= T[t].opacity
     /\ Cardinality({ s \in 1 .. Len(T) : T[s].size = CENTER \/ T[s].ring }) = 1
     /\ \A s \in 1 .. Len(T) :
          IF T[s].realIndex = arc.activeIndex
          THEN T[s].size = CENTER /\ T[s].ring
          ELSE T[s].size = THUMB /\ ~T[s].ring

\* C14 witness: a render with nine thumbnails, the outermost at distance 4.
C14_Witness ==
  /\ lastOp.op = "render"
  /\ Len(arc.thumbs) = 9
  /\ arc.thumbs[1].opacity = 35
  /\ arc.thumbs[9].opacity = 35
  /\ arc.thumbs[5].ring

\* C11: a commit-left invokes onSwipeLeft once and never onSwipeRight, a
\* commit-right invokes onSwipeRight once and never onSwipeLeft; the callback
\* runs only at the end of the exit animation, after translateX, translateY
\* and both label opacities were set to 0; a spring-back or a terminated
\* gesture invokes neither callback.
C11_CallbackOncePerCommit ==
  [][/\ lastOp'.op \in {"onLeft", "onRight"} =>
          /\ exit # NoExit
          /\ exit' = NoExit
          /\ lastOp'.op = (IF exit.dir = "left" THEN "onLeft" ELSE "onRight")
          /\ lastOp'.dir = exit.dir
          /\ val' = ZeroVal
     /\ exit' # exit =>
          \/ /\ exit = NoExit
             /\ lastOp'.op = "release"
             /\ lastOp'.result \in {"left", "right"}
             /\ exit'.dir = lastOp'.result
          \/ /\ exit' = NoExit
             /\ lastOp'.op \in {"onLeft", "onRight"}
     /\ (lastOp'.op = "release" /\ lastOp'.result = "spring") => exit' = NoExit
     /\ lastOp'.op \in {"terminate", "springEnd"} => exit' = NoExit]_vars

\* C11 witness: the callback of a commit-right ran onRight after the card
\* had been dragged, and the values are back at 0.
C11_Witness ==
  /\ lastOp.op = "onRight"
  /\ lastOp.result = "recorded"
  /\ exit = NoExit
  /\ val = ZeroVal

\* C15: when the timer of a recorded accept or reject of item k fires, the
\* active index becomes min(k + 1, n - 1); the timer of an undo leaves the
\* active index unchanged.
C15_TimerAdvancesFromDecided ==
  [][/\ (lastOp'.op = "timer" /\ lastOp'.result = "goNext" /\ Len(history) > 0) =>
          activeIndex' = Min(history[Len(history)].index + 1, NumOutfits - 1)
     /\ (lastOp'.op = "timer" /\ lastOp'.result = "undo") =>
          activeIndex' = activeIndex]_vars

\* C16: undo with the guard clear and a history ending in (i, action) removes
\* exactly that entry, clears both flags of item i and no other item's,
\* sets the active index to i, and removes item i's id from the accepted
\* collection iff action = 'right'; with an empty history undo changes
\* nothing and does not set the guard.
C16_UndoEffect ==
  [][lastOp'.op = "undo" =>
       IF Len(history) = 0
       THEN UNCHANGED << screen, isProcessing, timer >>
       ELSE ~isProcessing =>
              LET i      == history[Len(history)].index
                  action == history[Len(history)].action
                  Keep(x) == x.id # Id(i)
              IN /\ Len(history') = Len(history) - 1
                 /\ \A j \in 1 .. Len(history') : history'[j] = history[j]
                 /\ outfits'[i] = [isAccepted |-> FALSE, isRejected |-> FALSE]
                 /\ \A j \in Indices \ {i} : outfits'[j] = outfits[j]
                 /\ activeIndex' = i
                 /\ IF action = "right"
                    THEN accepted' = SelectSeq(accepted, Keep)
                    ELSE accepted' = accepted]_vars

\* C16 witness: an accept was undone while an older entry stayed in the
\* history and another accepted record stayed in the collection.
C16_Witness ==
  /\ lastOp.op = "undo"
  /\ lastOp.result = "recorded"
  /\ lastOp.dir = "right"
  /\ Len(history) = 1
  /\ Len(accepted) = 1
  /\ \E i \in Indices : outfits[i].isAccepted

\* C17: every state in which the guard is set is eventually followed by a
\* state in which it is clear; and a handler that returns early because the
\* indexed item does not exist changes no flag, history entry, active index
\* or store content and leaves the guard clear.
C17_GuardReleased ==
  /\ isProcessing ~> ~isProcessing
  /\ [][lastOp'.result = "missing" => (UNCHANGED screen /\ ~isProcessing')]_vars

\* C17 witness: the guard set by a recorded undo was released by its timer.
C17_Witness ==
  /\ lastOp.op = "timer"
  /\ lastOp.result = "undo"
  /\ ~isProcessing
  /\ timer = "none"

\* C18: every release past the threshold on the active card ends with that
\* card's decision recorded (flag set, history entry pushed), also when an
\* undo was pressed during the exit animation, so that the guard is set when
\* the completion callback runs.
C18_CommittedSwipeRecorded ==
  [][(lastOp'.op \in {"onLeft", "onRight"} /\ timer = "undo") =>
       /\ lastOp'.result = "recorded"
       /\ Len(history') = Len(history) + 1
       /\ outfits'[lastOp'.index] # NoFlags]_vars

\* C19: in every reachable state the top card of the stack can start a drag,
\* also a card that was first mounted as the second card and became the top
\* card after the previous one was decided; the second card can never start
\* a drag.
C19_TopCardAcceptsPan ==
  \A i \in VisibleCards(activeIndex) :
    cards[i].mounted /\ (CanStartDrag(i) <=> i = activeIndex)

\* C20: whenever no gesture is in progress on the top card and none of its
\* animations is running, its translateX and translateY are 0 and both label
\* opacities are 0: after a spring-back, after a committed exit and after a
\* terminated gesture.
C20_RestIsCentred ==
  (drag = NoDrag /\ anim = "none" /\ exit = NoExit) =>
    (val.tx = 0 /\ val.ty = 0 /\ val.like = 0 /\ val.nope = 0)

\* C21: after every move event with horizontal displacement dx, the like
\* opacity is min(1, dx / (0.75 T)) and the nope opacity 0 when dx > 0, the
\* nope opacity is min(1, -dx / (0.75 T)) and the like opacity 0 when dx < 0,
\* both are 0 when dx = 0; so both stay within 0 .. 1, never both exceed 0,
\* and the matching label has opacity 1 for every dx whose release would
\* commit (|dx| > T).  An opacity p / q is val.like / OpacityFull with
\* OpacityFull = 3 T, so dx / (0.75 T) is 4 dx over 3 T.
C21_LabelOpacityDuringDrag ==
  lastOp.op = "move" =>
    LET dx == lastOp.dx
        T  == ScreenWidth * 26
        One == 3 * T
        Ratio(x) == IF 4 * x >= One THEN One ELSE 4 * x
    IN /\ dx > 0 => (val.like = Ratio(dx) /\ val.nope = 0)
       /\ dx < 0 => (val.nope = Ratio(-dx) /\ val.like = 0)
       /\ dx = 0 => (val.like = 0 /\ val.nope = 0)
       /\ 0 <= val.like /\ val.like <= One
       /\ 0 <= val.nope /\ val.nope <= One
       /\ ~(val.like > 0 /\ val.nope > 0)
       /\ dx > T => val.like = One
       /\ dx < -T => val.nope = One

\* C21 witness: a move to the right short of 0.75 T left the like label
\* partly visible and the nope label hidden.
C21_Witness ==
  /\ lastOp.op = "move"
  /\ lastOp.dx > 0
  /\ 0 < val.like /\ val.like < OpacityFull
  /\ val.nope = 0
  /\ val.tx = lastOp.dx

\* C22: starting from an empty store, in every state reachable by swipes,
\* undo and carousel presses, every id in the store's accepted list belongs
\* to an item whose isAccepted flag is true.
C22_StoredImpliesShownAccepted ==
  \A j \in 1 .. Len(accepted) :
    \E i \in Indices : Id(i) = accepted[j].id /\ outfits[i].isAccepted

\* C23: starting from an empty store, in every state reachable by swipes,
\* undo and carousel presses, every item whose isAccepted flag is true has
\* its id in the store's accepted list.
C23_ShownAcceptedImpliesStored ==
  \A i \in Indices :
    outfits[i].isAccepted => \E j \in 1 .. Len(accepted) : accepted[j].id = Id(i)

\* C23 witness: the accept of one item was undone (flag cleared, id removed)
\* while another item is still accepted and stored.
C23_Witness ==
  /\ lastOp.op = "undo"
  /\ lastOp.result = "recorded"
  /\ lastOp.dir = "right"
  /\ ~outfits[lastOp.index].isAccepted
  /\ ~HasId(accepted, Id(lastOp.index))
  /\ \E i \in Indices : outfits[i].isAccepted /\ HasId(accepted, Id(i))

\* C24: in every state reachable by swipes, undo and carousel presses, no
\* item has isAccepted and isRejected true at the same time.
C24_NeverAcceptedAndRejected ==
  \A i \in Indices : ~(outfits[i].isAccepted /\ outfits[i].isRejected)

\* C24 witness: an item that had been accepted was decided again and is now
\* rejected.
C24_Witness ==
  /\ lastOp.op = "onLeft"
  /\ lastOp.result = "recorded"
  /\ outfits[lastOp.index].isRejected
  /\ HasId(accepted, Id(lastOp.index))

\* C25: addAccepted with a record whose id is not in the list puts that
\* record at the head and leaves the other records in their order; with a
\* record whose id is in the list it leaves the list unchanged; so calling
\* it twice with the same record equals calling it once.
C25_AddAcceptedHeadIdempotent ==
  [][\A o \in StoreRecords :
       StoreAdd(o) =>
         /\ IF \E j \in 1 .. Len(accepted) : accepted[j].id = o.id
            THEN accepted' = accepted
            ELSE /\ Len(accepted') = Len(accepted) + 1
                 /\ accepted'[1] = o
                 /\ \A j \in 1 .. Len(accepted) : accepted'[j + 1] = accepted[j]
         /\ AddAccepted(accepted', o) = accepted']_vars

\* C25 witness: a record with a new id was put at the head of a list that
\* already held two records.
C25_Witness ==
  /\ lastOp.op = "addAccepted"
  /\ lastOp.result = "added"
  /\ Len(accepted) = 3
  /\ accepted[1].id = lastOp.index

\* C26: after removeAccepted(id) no record with that id is in the list and
\* all other records keep their relative order; with an absent id the list
\* is unchanged; and for an absent id, addAccepted followed by
\* removeAccepted of the same id gives back the list.
C26_RemoveAcceptedExact ==
  [][/\ \A id \in Ids :
          StoreRemove(id) =>
            LET Keep(x) == x.id # id IN
            /\ \A j \in 1 .. Len(accepted') : accepted'[j].id # id
            /\ accepted' = SelectSeq(accepted, Keep)
            /\ (\A j \in 1 .. Len(accepted) : accepted[j].id # id) =>
                 accepted' = accepted
     /\ \A o \in StoreRecords :
          (StoreAdd(o) /\ \A j \in 1 .. Len(accepted) : accepted[j].id # o.id) =>
            RemoveAccepted(accepted', o.id) = accepted]_vars

\* C26 witness: a record was removed from a list of three, two are left.
C26_Witness ==
  /\ lastOp.op = "removeAccepted"
  /\ lastOp.result = "removed"
  /\ Len(accepted) = 2
  /\ ~HasId(accepted, lastOp.index)

====
